---- MODULE Spec2Model ----
(***************************************************************************)
(* hammer-core (source-code/core/src/main.rs): the atomic deployment       *)
(* engine over a btrfs volume, and hammer's progress-bar filter            *)
(* (source-code/progress-bar/src/main.rs).                                 *)
(*                                                                         *)
(* The volume is the state: the subvolumes under /btrfs-root/deployments,  *)
(* the symlink /btrfs-root/current and the filesystem's default subvolume. *)
(* One hammer-core process runs at a time; `call` is that process: its     *)
(* subcommand, its position in the code and its local variables.  Every    *)
(* external tool the code runs (btrfs, mount, umount, ls, bash, podman) and *)
(* every std::fs call may fail; `faults` counts the failures injected.     *)
(*                                                                         *)
(* What the tools do when they succeed follows their manuals:              *)
(*  - btrfs subvolume snapshot SRC DEST creates DEST when DEST does not    *)
(*    exist; when DEST is an existing directory it creates the snapshot    *)
(*    INSIDE it, named basename(SRC) (btrfs-subvolume(8)); that needs DEST *)
(*    writable and DEST/basename(SRC) free.  A snapshot does not descend   *)
(*    into nested subvolumes: they show up in it as empty directories.     *)
(*  - btrfs subvolume delete is refused by the kernel for the default      *)
(*    subvolume (EPERM) and for a subvolume holding nested subvolumes      *)
(*    (ENOTEMPTY).                                                         *)
(*  - mount --bind on a target that is already a mount point stacks a      *)
(*    second mount on it and umount takes the top one off, so a call's     *)
(*    umount removes the mount that call made; call.mounted is the set of  *)
(*    the call's own mounts that are in place.                             *)
(***************************************************************************)
EXTENDS Integers, Sequences, FiniteSets, TLC

\* ------------------------------------------------------------------ bounds

\* Calendar days on which the program is run.
MaxDay == 2

\* Tool and system-call failures injected in one behaviour.
MaxFaults == 2

\* Snapshots created inside an existing deployment (nested subvolumes) on
\* the whole volume.
MaxNested == 1

\* Lines the progress filter reads from standard input.
MaxLines == 5

\* Largest N of a `set_total N` line.
MaxTotal == 3

\* --------------------------------------------------------------- constants

\* clean_up keeps the newest 5 deployments.
KeepDeployments == 5

\* Key of the subvolume /btrfs-root/current points at before any promote
\* (it is not under the deployments directory); the days are the keys of the
\* deployments.
Base == 0

\* switch without an argument.
NoArg == 0

\* The deployments directory starts empty or at the retention cap (the
\* program was run, `deploy`, on that many earlier days).
OldDays == KeepDeployments

StartSizes == {0, OldDays}

\* The days of the earlier runs, and the days on which the program is run.
Days == 1 .. (OldDays + MaxDay)

RunDays == (OldDays + 1) .. (OldDays + MaxDay)

\* ---------------------------------------------------------- names and order

\* The wall clock's date on day d, as Local::now() gives it.  The days span
\* a one-digit and a two-digit day of the month.
ClockDate(d) == <<2025, 1, 6 + d>>

\* The decimal digits of n, zero-padded to width w, as character codes.
Pad(n, w) == [i \in 1 .. w |-> 48 + ((n \div (10 ^ (w - i))) % 10)]

\* One field of the timestamp: %Y, %m and %d are zero-padded.
Field(n, w) == Pad(n, w)

\* format("%Y-%m-%d")
FormatDate(date) ==
    Field(date[1], 4) \o <<45>> \o Field(date[2], 2) \o <<45>> \o Field(date[3], 2)

\* "hammer-"
HammerPrefix == <<104, 97, 109, 109, 101, 114, 45>>

\* The directory entry of the deployment of day d: hammer-<YYYY-MM-DD>.
Name(d) == HammerPrefix \o FormatDate(ClockDate(d))

\* line.starts_with(p)
StartsWith(s, p) == Len(s) >= Len(p) /\ SubSeq(s, 1, Len(p)) = p

\* Ord for String: byte-wise lexicographic order.
RECURSIVE LexLess(_, _)
LexLess(s, t) ==
    IF s = <<>> THEN t # <<>>
    ELSE IF t = <<>> THEN FALSE
    ELSE IF Head(s) # Head(t) THEN Head(s) < Head(t)
    ELSE LexLess(Tail(s), Tail(t))

RECURSIVE InsertSorted(_, _)
InsertSorted(x, sorted) ==
    IF sorted = <<>> THEN <<x>>
    ELSE IF LexLess(Name(x), Name(Head(sorted))) THEN <<x>> \o sorted
    ELSE <<Head(sorted)>> \o InsertSorted(x, Tail(sorted))

\* deployments.sort(): ascending by path.
RECURSIVE SortPaths(_)
SortPaths(seq) ==
    IF seq = <<>> THEN <<>> ELSE InsertSorted(Head(seq), SortPaths(Tail(seq)))

\* The sort of clean_up.
CleanSort(seq) == SortPaths(seq)

\* The sort of switch_deployment.
SwitchSort(seq) == SortPaths(seq)

\* ------------------------------------------------------------------- state

VARIABLES
    snaps,        \* day -> the subvolume /btrfs-root/deployments/hammer-<day>
    current,      \* /btrfs-root/current: [present, target]
    bootDefault,  \* the filesystem's default subvolume (a subvolume key)
    faults,       \* failures injected so far
    call,         \* the running (or last finished) hammer-core process
    bar           \* the progress filter process

vars == <<snaps, current, bootDefault, faults, call, bar>>

engineVars == <<snaps, current, bootDefault, faults, call>>

\* let dirs = vec!["proc", "sys", "dev"];
Dirs == <<"proc", "sys", "dev">>

\* A path of the deployments directory at which nothing exists.
Absent ==
    [exists |-> FALSE, ro |-> FALSE, inside |-> {}, kids |-> {}, by |-> "none"]

\* A deployment as `deploy` leaves it.  `by` records the command that created
\* the subvolume: "deploy" or "atomic".
Deployed == [exists |-> TRUE, ro |-> TRUE, inside |-> {}, kids |-> {}, by |-> "deploy"]

\* No symlink at /btrfs-root/current.
NoLink == [present |-> FALSE, target |-> Base]

LinkTo(p) == [present |-> TRUE, target |-> p]

\* Whether a path (a subvolume key) exists.
PathExists(p) == IF p = Base THEN TRUE ELSE snaps[p].exists

\* Path::new(CURRENT_SYMLINK).exists(): follows the link, so a dangling link
\* does not exist.
CurrentExists == current.present /\ PathExists(current.target)

\* The entries of the deployments directory.
DirEntries == {d \in Days : snaps[d].exists}

\* The history: the entries whose name starts with "hammer-".
History == {d \in DirEntries : StartsWith(Name(d), HammerPrefix)}

\* `ls` prints the directory sorted by name.
RECURSIVE LsOutput(_)
LsOutput(S) ==
    IF S = {} THEN <<>>
    ELSE LET m == CHOOSE x \in S : \A y \in S \ {x} : LexLess(Name(x), Name(y))
         IN  <<m>> \o LsOutput(S \ {m})

\* get_deployments(): the lines of `ls` that start with "hammer-".
GetDeployments == SelectSeq(LsOutput(DirEntries), LAMBDA d : StartsWith(Name(d), HammerPrefix))

\* A get_subvol_id that is handed CURRENT_SYMLINK instead of the deployment:
\* it resolves the subvolume the current pointer names.
SubvolIdOfCurrent(p) == current.target

\* The text after "Subvolume ID:" of `btrfs subvolume show path`: the id of
\* the subvolume at that path.  Ids are opaque and unique; the model names a
\* subvolume's id by its key, which is exact because the subvolume that is
\* the default cannot be deleted, and so cannot be replaced under its path.
SubvolId(p) == p

IdleCall ==
    [cmd |-> "none", pc |-> "idle", today |-> 0, arg |-> NoArg, target |-> Base,
     idx |-> 0, aptok |-> TRUE, todo |-> <<>>, result |-> "none",
     err |-> "", mounted |-> {}, ulog |-> <<>>, promo |-> "none", delfail |-> {},
     pre |-> [snaps |-> [d \in Days |-> Absent], current |-> NoLink,
              bootDefault |-> Base]]

\* String::from("Initializing...")
InitialMessage == <<73, 110, 105, 116, 105, 97, 108, 105, 122, 105, 110, 103, 46, 46, 46>>

\* The filter before its first line.  updates, lastTotal and seenTotal record
\* the input read: the `update` lines, and the last `set_total` that parsed.
IdleBar ==
    [total |-> 0, current |-> 0, message |-> InitialMessage, len |-> 0, pos |-> 0,
     finished |-> FALSE, stopped |-> FALSE, read |-> 0, updates |-> 0, lastTotal |-> 0,
     seenTotal |-> FALSE]

\* The deployments of the earlier days, current -> base, base the default
\* subvolume, no process running.
Init ==
    /\ \E n \in StartSizes : snaps = [d \in Days |-> IF d <= n THEN Deployed ELSE Absent]
    /\ current = LinkTo(Base)
    /\ bootDefault = Base
    /\ faults = 0
    /\ call = IdleCall
    /\ bar = IdleBar

\* ------------------------------------------------------------ the commands

Atomic == {"install", "remove"}

Running == call.pc \notin {"idle", "done"}

\* One more injected failure.
Fault == faults < MaxFaults /\ faults' = faults + 1

NoFault == faults' = faults

\* return Err(e)
Fail(e) == call' = [call EXCEPT !.pc = "done", !.result = "err", !.err = e]

\* The first position of each subcommand.
FirstPc(c) ==
    CASE c = "deploy"  -> "cd_snapshot"
      [] c = "install" -> "cd_snapshot"
      [] c = "remove"  -> "cd_snapshot"
      [] c = "switch"  -> "sd_target"
      [] c = "clean"   -> "cl_list"

\* main: a subcommand starts, on day d, with argument a (switch only).
Start(c, d, a) ==
    /\ call.pc = "idle"
    /\ call' = [IdleCall EXCEPT !.cmd = c, !.pc = FirstPc(c), !.today = d, !.arg = a,
                                !.pre = [snaps |-> snaps, current |-> current,
                                         bootDefault |-> bootDefault]]
    /\ UNCHANGED <<snaps, current, bootDefault, faults, bar>>

\* deploy: create_deployment(false); install/remove --atomic: create_deployment(true)
Writable == call.cmd \in Atomic

\* A create_deployment that never passes -r.
SnapshotNeverReadOnly(writable) == FALSE

\* if !writable { args.push("-r") }
SnapshotReadOnly(writable) == ~writable

\* What a snapshot of subvolume p holds in its top directory: p's nested
\* subvolumes, as empty directories.
InsideOf(p) == IF p = Base THEN {} ELSE snaps[p].inside

\* The nested subvolumes on the volume.
RECURSIVE CountKids(_)
CountKids(S) ==
    IF S = {} THEN 0
    ELSE LET d == CHOOSE x \in S : TRUE
         IN  Cardinality(snaps[d].kids) + CountKids(S \ {d})

\* create_deployment's snapshot succeeded.  With writable the property call
\* follows; without, Ok(new_deployment) goes back to main, which drops it:
\* `deploy` is done.
AfterSnapshot ==
    IF Writable THEN [call EXCEPT !.pc = "cd_setrw"]
    ELSE [call EXCEPT !.pc = "done", !.result = "ok"]

\* A create_deployment that drops the snapshot command's exit status and
\* goes on as after a success.
SnapshotStatusIgnored == call' = AfterSnapshot

\* if !output.status.success() { return Err("Failed to create deployment: ..") }
SnapshotFailed == Fail("Failed to create deployment")

\* btrfs subvolume snapshot [-r] <src> <new_deployment>
CreateSnapshotFrom(src) ==
    LET dest == call.today
    IN  \/ \* the destination does not exist: the snapshot is created at it
           /\ PathExists(src)
           /\ ~snaps[dest].exists
           /\ snaps' = [snaps EXCEPT ![dest] =
                  [exists |-> TRUE, ro |-> SnapshotReadOnly(Writable),
                   inside |-> InsideOf(src), kids |-> {},
                   by |-> IF Writable THEN "atomic" ELSE "deploy"]]
           /\ call' = AfterSnapshot
           /\ NoFault
        \/ \* the destination is a writable directory: the snapshot is
           \* created inside it, named after the source
           /\ PathExists(src)
           /\ snaps[dest].exists /\ ~snaps[dest].ro
           /\ src \notin snaps[dest].inside
           /\ CountKids(Days) < MaxNested
           /\ snaps' = [snaps EXCEPT
                  ![dest].inside = @ \cup {src},
                  ![dest].kids = @ \cup {[name |-> src,
                                          ro |-> SnapshotReadOnly(Writable)]}]
           /\ call' = AfterSnapshot
           /\ NoFault
        \/ \* btrfs exits non-zero: no source, a read-only destination, or
           \* the name taken inside the destination
           /\ \/ ~PathExists(src)
              \/ snaps[dest].exists /\ (snaps[dest].ro \/ src \in snaps[dest].inside)
           /\ SnapshotFailed
           /\ NoFault /\ UNCHANGED snaps
        \/ /\ Fault
           /\ Fail("Failed to create deployment")
           /\ UNCHANGED snaps

\* create_deployment: create_dir_all(DEPLOYMENTS_DIR)?, read_link(CURRENT_SYMLINK)?
\* and btrfs subvolume snapshot [-r] <current> <new_deployment>
CreateSnapshot ==
    /\ call.pc = "cd_snapshot"
    /\ \/ /\ Fault
          /\ Fail("io: create_dir_all")
          /\ UNCHANGED snaps
       \/ /\ ~current.present
          /\ Fail("io: read_link")
          /\ NoFault /\ UNCHANGED snaps
       \/ /\ current.present
          /\ CreateSnapshotFrom(current.target)
    /\ UNCHANGED <<current, bootDefault, bar>>


\* create_deployment: if writable { set_subvolume_readonly(&new_deployment, false)? }
\* and Ok(new_deployment) back to atomic_install / atomic_remove.
CreateSetWritable ==
    /\ call.pc = "cd_setrw"
    /\ \/ /\ snaps' = [snaps EXCEPT ![call.today].ro = FALSE]
          /\ call' = [call EXCEPT !.pc = "mount", !.idx = 1, !.target = call.today]
          /\ NoFault
       \/ /\ Fault
          /\ Fail("Failed to set readonly false")
          /\ UNCHANGED snaps
    /\ UNCHANGED <<current, bootDefault, bar>>

\* for dir in dirs { ... }: the order both loops of bind_mounts_for_chroot
\* take the directories in.
MountOrder == Dirs

\* An unmount loop that stops after its first target.
UmountFirstOnly == <<"proc">>

UmountOrder == Dirs

\* bind_mounts_for_chroot(&new_deployment, true): one turn of the loop,
\* create_dir_all(target)? and mount --bind /<dir> <target>.  A failure
\* returns at once; the mounts of the earlier turns stay.
MountDir ==
    /\ call.pc = "mount"
    /\ LET dir == MountOrder[call.idx]
       IN  \/ /\ call' = [call EXCEPT !.mounted = @ \cup {dir},
                                      !.idx = @ + 1,
                                      !.pc = IF call.idx = Len(MountOrder)
                                             THEN "apt" ELSE "mount"]
              /\ NoFault
           \/ /\ Fault
              /\ Fail("Failed to mount")
    /\ UNCHANGED <<snaps, current, bootDefault, bar>>

\* The error of atomic_install / atomic_remove when the chroot command
\* exits non-zero.
ChrootError == IF call.cmd = "install" THEN "Failed to install in chroot"
               ELSE "Failed to remove in chroot"

\* atomic_install / atomic_remove: /bin/bash -c "chroot <new> /bin/bash -c 'apt ...'"
\* .output()? returns at once when bash cannot be started; a non-zero exit
\* goes on to the unmount.
RunApt ==
    /\ call.pc = "apt"
    /\ \/ /\ call' = [call EXCEPT !.pc = "umount", !.idx = 1, !.aptok = TRUE]
          /\ NoFault
       \/ /\ Fault
          /\ call' = [call EXCEPT !.pc = "umount", !.idx = 1, !.aptok = FALSE]
       \/ /\ Fault
          /\ Fail("io: spawn bash")
    /\ UNCHANGED <<snaps, current, bootDefault, bar>>

\* bind_mounts_for_chroot(&new_deployment, false): one turn of the loop,
\* umount <target>.  A failure returns at once; the later targets are not
\* tried.  After the last turn the caller goes on: to the seal when the chroot
\* command succeeded, to return Err when it did not.
UmountDir ==
    /\ call.pc = "umount"
    /\ LET dir == UmountOrder[call.idx]
           last == call.idx = Len(UmountOrder)
       IN  \/ /\ call' = [call EXCEPT
                            !.mounted = @ \ {dir},
                            !.ulog = Append(@, dir),
                            !.idx = @ + 1,
                            !.pc = IF ~last THEN "umount"
                                   ELSE IF call.aptok THEN "seal" ELSE "done",
                            !.result = IF last /\ ~call.aptok THEN "err" ELSE @,
                            !.err = IF last /\ ~call.aptok THEN ChrootError ELSE @]
              /\ NoFault
           \/ /\ Fault
              /\ call' = [call EXCEPT !.pc = "done", !.result = "err",
                                      !.err = "Failed to umount",
                                      !.ulog = Append(@, dir)]
    /\ UNCHANGED <<snaps, current, bootDefault, bar>>

\* set_subvolume_readonly(&new_deployment, true): the value of the ro property.
SealValue == TRUE

\* atomic_install / atomic_remove: set_subvolume_readonly(&new_deployment, true)?
Seal ==
    /\ call.pc = "seal"
    /\ \/ /\ snaps' = [snaps EXCEPT ![call.today].ro = SealValue]
          /\ call' = [call EXCEPT !.pc = "sw_setdefault"]
          /\ NoFault
       \/ /\ Fault
          /\ Fail("Failed to set readonly true")
          /\ UNCHANGED snaps
    /\ UNCHANGED <<current, bootDefault, bar>>

\* switch_to_deployment: let id = get_subvol_id(deployment)? and
\* btrfs subvolume set-default <id> /
SetDefault ==
    /\ call.pc = "sw_setdefault"
    /\ \/ /\ PathExists(call.target)
          /\ bootDefault' = SubvolId(call.target)
          /\ call' = [call EXCEPT !.pc = "sw_unlink", !.promo = "step1"]
          /\ NoFault
       \/ /\ ~PathExists(call.target)
          /\ Fail("Failed to get subvolume ID.")
          /\ NoFault /\ UNCHANGED bootDefault
       \/ /\ Fault
          /\ Fail("Failed to get subvolume ID.")
          /\ UNCHANGED bootDefault
       \/ /\ PathExists(call.target)
          /\ Fault
          /\ Fail("Failed to set default subvolume")
          /\ UNCHANGED bootDefault
    /\ UNCHANGED <<snaps, current, bar>>

\* switch_to_deployment: if Path::new(CURRENT_SYMLINK).exists() { remove_file(..)? }
RemoveLink ==
    /\ call.pc = "sw_unlink"
    /\ \/ /\ CurrentExists
          /\ current' = NoLink
          /\ call' = [call EXCEPT !.pc = "sw_symlink"]
          /\ NoFault
       \/ /\ ~CurrentExists
          /\ call' = [call EXCEPT !.pc = "sw_symlink"]
          /\ NoFault /\ UNCHANGED current
       \/ /\ CurrentExists
          /\ Fault
          /\ call' = [call EXCEPT !.pc = "done", !.result = "err",
                                  !.err = "io: remove_file", !.promo = "step2failed"]
          /\ UNCHANGED current
    /\ UNCHANGED <<snaps, bootDefault, bar>>

\* The result switch_to_deployment's caller sees when the symlink cannot be
\* made: the error is passed on with `?`.
LinkFailure == "err"

\* switch_to_deployment: symlink(deployment, CURRENT_SYMLINK)?; Ok(())
\* A dangling link was not removed above, and symlink() fails on it.
MakeLink ==
    /\ call.pc = "sw_symlink"
    /\ \/ /\ ~current.present
          /\ current' = LinkTo(call.target)
          /\ call' = [call EXCEPT !.pc = "done", !.result = "ok", !.promo = "done"]
          /\ NoFault
       \/ /\ current.present
          /\ call' = [call EXCEPT !.pc = "done", !.result = LinkFailure,
                                  !.err = "io: symlink", !.promo = "step2failed"]
          /\ NoFault /\ UNCHANGED current
       \/ /\ ~current.present
          /\ Fault
          /\ call' = [call EXCEPT !.pc = "done", !.result = LinkFailure,
                                  !.err = "io: symlink", !.promo = "step2failed"]
          /\ UNCHANGED current
    /\ UNCHANGED <<snaps, bootDefault, bar>>

\* if deployments.len() < 2 { return Err(..) }
TooFew(n) == n < 2

\* The index of the newest entry (deployments[deployments.len() - 1]).
RollbackNewest(n) == n

\* An index that steps back from the entry the current pointer names (one
\* before it in a history without gaps), not from the end of the list.
RollbackBehindCurrent(n) ==
    IF current.target \in 2 .. n THEN current.target - 1 ELSE n - 1

\* deployments[deployments.len() - 2], as a 1-based index.
RollbackIndex(n) == n - 1

\* switch_deployment: the target, from the argument or from the history, and
\* the check that it exists.
SwitchTarget ==
    /\ call.pc = "sd_target"
    /\ \/ /\ call.arg # NoArg
          /\ IF PathExists(call.arg)
             THEN call' = [call EXCEPT !.pc = "sw_setdefault", !.target = call.arg]
             ELSE Fail("Deployment does not exist.")
          /\ NoFault
       \/ /\ call.arg = NoArg
          /\ LET deployments == GetDeployments
             IN  IF TooFew(Len(deployments))
                 THEN Fail("Not enough deployments for rollback.")
                 ELSE call' = [call EXCEPT
                         !.pc = "sw_setdefault",
                         !.target = SwitchSort(deployments)[RollbackIndex(Len(deployments))]]
          /\ NoFault
       \/ /\ call.arg = NoArg
          /\ Fault
          /\ Fail("Failed to list deployments.")
    /\ UNCHANGED <<snaps, current, bootDefault, bar>>

\* A loop that takes one entry too many (>= 5, len - 4).
DeleteCountKeepFour(n) ==
    IF n >= KeepDeployments THEN n - KeepDeployments + 1 ELSE 0

\* if deployments.len() > 5 { ... take(deployments.len() - 5) }
DeleteCount(n) == IF n > KeepDeployments THEN n - KeepDeployments ELSE 0

\* clean_up: podman system prune -f (its exit status is dropped, only a
\* failure to start it returns), get_deployments()?, sort(), and the entries
\* the loop will take.
CleanList ==
    /\ call.pc = "cl_list"
    /\ \/ /\ LET deployments == CleanSort(GetDeployments)
                 todo == SubSeq(deployments, 1, DeleteCount(Len(deployments)))
             IN  call' = [call EXCEPT !.todo = todo, !.idx = 1,
                                      !.pc = IF todo = <<>> THEN "done" ELSE "cl_delete",
                                      !.result = IF todo = <<>> THEN "ok" ELSE @]
          /\ NoFault
       \/ /\ Fault
          /\ Fail("io: spawn podman")
       \/ /\ Fault
          /\ Fail("Failed to list deployments.")
    /\ UNCHANGED <<snaps, current, bootDefault, bar>>

\* A delete that is refused only for a subvolume that holds nested
\* subvolumes: the default subvolume can be deleted.
RefusedOnlyWhenNested(d) == snaps[d].kids # {}

\* The kernel refuses to delete the default subvolume and a subvolume that
\* holds nested subvolumes.
DeleteRefused(d) == IF bootDefault = SubvolId(d) THEN TRUE ELSE snaps[d].kids # {}

\* clean_up: one turn of the loop, btrfs subvolume delete <dep>.  A non-zero
\* exit is printed and the loop goes on; a failure to start btrfs returns.
CleanDelete ==
    /\ call.pc = "cl_delete"
    /\ LET d == call.todo[call.idx]
           last == call.idx = Len(call.todo)
           next(failed) ==
               [call EXCEPT !.idx = @ + 1,
                            !.delfail = IF failed THEN @ \cup {d} ELSE @,
                            !.pc = IF last THEN "done" ELSE "cl_delete",
                            !.result = IF last THEN "ok" ELSE @]
       IN  \/ /\ ~DeleteRefused(d)
              /\ snaps' = [snaps EXCEPT ![d] = Absent]
              /\ call' = next(FALSE)
              /\ NoFault
           \/ /\ DeleteRefused(d)
              /\ call' = next(TRUE)
              /\ NoFault /\ UNCHANGED snaps
           \/ /\ ~DeleteRefused(d)
              /\ Fault
              /\ call' = next(TRUE)
              /\ UNCHANGED snaps
           \/ /\ Fault
              /\ Fail("io: spawn btrfs")
              /\ UNCHANGED snaps
    /\ UNCHANGED <<current, bootDefault, bar>>

\* The process is killed (a signal, a power cut) before it returns; a kill
\* counts as one of the injected failures.
Kill ==
    /\ Running
    /\ Fault
    /\ call' = [IdleCall EXCEPT !.pc = "done", !.result = "killed"]
    /\ UNCHANGED <<snaps, current, bootDefault, bar>>

\* main returns (or the killed process is gone): the next command can start.
Exit ==
    /\ call.pc = "done"
    /\ call' = IdleCall
    /\ UNCHANGED <<snaps, current, bootDefault, faults, bar>>

StartDeploy == \E d \in RunDays : Start("deploy", d, NoArg)

StartAtomic == \E c \in Atomic, d \in RunDays : Start(c, d, NoArg)

\* The arguments `switch` is run with: none, the oldest deployment, and the
\* names of the days of this run (whether or not they exist).
SwitchArgs == {NoArg, 1} \cup RunDays

StartSwitch == \E a \in SwitchArgs : Start("switch", 0, a)

StartClean == Start("clean", 0, NoArg)

Next ==
    \/ StartDeploy
    \/ StartAtomic
    \/ StartSwitch
    \/ StartClean
    \/ CreateSnapshot
    \/ CreateSetWritable
    \/ MountDir
    \/ RunApt
    \/ UmountDir
    \/ Seal
    \/ SetDefault
    \/ RemoveLink
    \/ MakeLink
    \/ SwitchTarget
    \/ CleanList
    \/ CleanDelete
    \/ Kill
    \/ Exit

Spec == Init /\ [][Next]_vars

\* ------------------------------------------------------ the progress filter

\* The lines on standard input, after trim(): a word and the text that
\* follows it, as character codes.  "set_total" with nothing after it does
\* not start with "set_total ".
Numerals == {<<48 + n>> : n \in 0 .. MaxTotal} \cup {<<43, 49>>, <<48, 50>>}

Lines ==
    [word : {"set_total "}, rest : Numerals \cup {<<120>>, <<45, 49>>, <<49, 32, 49>>}]
        \cup [word : {"msg "}, rest : {<<116>>}]
        \cup [word : {"update", "done", "", "set_total", "updates"}, rest : {<<>>}]

IsDigit(c) == c \in 48 .. 57

RECURSIVE DigitsValue(_, _)
DigitsValue(digits, acc) ==
    IF digits = <<>> THEN acc
    ELSE DigitsValue(Tail(digits), 10 * acc + (Head(digits) - 48))

\* line[10..].parse::<u64>(): Ok for decimal digits after an optional "+"
\* (a value past u64::MAX is an Err; the numerals here have at most two digits).
ParseU64(rest) ==
    LET digits == IF rest # <<>> /\ Head(rest) = 43 THEN Tail(rest) ELSE rest
    IN  IF digits # <<>> /\ \A i \in 1 .. Len(digits) : IsDigit(digits[i])
        THEN [ok |-> TRUE, value |-> DigitsValue(digits, 0)]
        ELSE [ok |-> FALSE, value |-> 0]

BarReading == ~bar.stopped /\ bar.read < MaxLines

\* ProgressBar::finish_with_message: the bar is finished at its length.
FinishPosition == bar.len

\* if line.starts_with("set_total ") { if let Ok(t) = parse { total = t; pb.set_length(total) } }
ReadSetTotal ==
    /\ BarReading
    /\ \E line \in Lines :
          /\ line.word = "set_total "
          /\ LET t == ParseU64(line.rest)
             IN  bar' = IF t.ok
                        THEN [bar EXCEPT !.total = t.value, !.len = t.value,
                                         !.lastTotal = t.value, !.seenTotal = TRUE,
                                         !.read = @ + 1]
                        ELSE [bar EXCEPT !.read = @ + 1]
    /\ UNCHANGED engineVars

\* else if line.starts_with("msg ") { message = line[4..]; pb.set_message(..) }
ReadMsg ==
    /\ BarReading
    /\ \E line \in Lines :
          /\ line.word = "msg "
          /\ bar' = [bar EXCEPT !.message = line.rest, !.read = @ + 1]
    /\ UNCHANGED engineVars

\* else if line == "update" { current += 1; pb.set_position(current) }
ReadUpdate ==
    /\ BarReading
    /\ bar' = [bar EXCEPT !.current = @ + 1, !.pos = bar.current + 1,
                          !.updates = @ + 1, !.read = @ + 1]
    /\ UNCHANGED engineVars

\* else if line == "done" { pb.finish_with_message(..); break }
ReadDone ==
    /\ BarReading
    /\ bar' = [bar EXCEPT !.pos = FinishPosition, !.finished = TRUE,
                          !.stopped = TRUE, !.read = @ + 1]
    /\ UNCHANGED engineVars

\* An empty line (continue) or a line no branch matches: nothing changes.
ReadOther ==
    /\ BarReading
    /\ \E line \in Lines :
          /\ line.word \in {"", "set_total", "updates"}
          /\ bar' = [bar EXCEPT !.read = @ + 1]
    /\ UNCHANGED engineVars

\* The input ends (or a read error: break) without `done`.
ReadEnd ==
    /\ ~bar.stopped
    /\ bar' = [bar EXCEPT !.stopped = TRUE]
    /\ UNCHANGED engineVars

NextBar ==
    \/ ReadSetTotal
    \/ ReadMsg
    \/ ReadUpdate
    \/ ReadDone
    \/ ReadOther
    \/ ReadEnd

SpecBar == Init /\ [][NextBar]_vars

\* ------------------------------------------------------------- the claims

\* The finished call returned to main (it was not killed).
Returned == call.pc = "done" /\ call.result \in {"ok", "err"}

AtomicReturned == Returned /\ call.cmd \in Atomic

\* The history when the call started.
PreHistory == {d \in Days : call.pre.snaps[d].exists /\ StartsWith(Name(d), HammerPrefix)}

\* The k entries of S with the lexicographically greatest names (all of S
\* when it has k or fewer).
Greatest(S, k) == {d \in S : Cardinality({e \in S : LexLess(Name(d), Name(e))}) < k}

\* The entry of S with the second-greatest name.
SecondGreatest(S) ==
    CHOOSE d \in S : Cardinality({e \in S : LexLess(Name(d), Name(e))}) = 1

Min(a, b) == IF a < b THEN a ELSE b

\* Whether the call's snapshot command created hammer-<today> itself; when
\* hammer-<today> was there before, the snapshot it created is the nested
\* subvolume hammer-<today>/<name of the source>.
CreatedAtDest == ~call.pre.snaps[call.today].exists

CreatedSealed ==
    IF CreatedAtDest THEN snaps[call.today].ro
    ELSE \A k \in snaps[call.today].kids : k.name = call.pre.current.target => k.ro

CreatedIsDefault == CreatedAtDest /\ bootDefault = SubvolId(call.today)

\* C1: when an atomic install or atomic remove returns success, the snapshot
\* that call created is sealed (read-only) and the next-boot default is that
\* snapshot's subvolume id.
C1_SuccessSealedAndDefault ==
    (AtomicReturned /\ call.result = "ok") => (CreatedSealed /\ CreatedIsDefault)

\* C2: when an atomic install or atomic remove returns failure, at whichever
\* step, the next-boot default and the current pointer are what they were
\* before the call.
C2_FailureLeavesDefaultAndCurrent ==
    (AtomicReturned /\ call.result = "err") =>
        (bootDefault = call.pre.bootDefault /\ current = call.pre.current)

\* C3: after an atomic install or atomic remove returns, with success or
\* failure, none of the bind mounts the call made on <snapshot>/proc, /sys
\* and /dev is still in place.
C3_NoMountRemains == AtomicReturned => call.mounted = {}

\* C4 (as claimed): after clean returns, the history has at most 5 entries
\* and they are exactly the 5 lexicographically greatest names of the
\* starting history.
C4_CleanKeepsExactlyNewestFive ==
    (Returned /\ call.cmd = "clean" /\ call.result = "ok") =>
        /\ Cardinality(History) <= 5
        /\ History = Greatest(PreHistory, 5)

\* C4 (amended): after clean returns, the 5 lexicographically greatest names
\* of the starting history are all still there, unchanged, and no entry was
\* added; when it returns success the history is those 5 and the older
\* entries whose delete command failed, so it has at most 5 entries when no
\* delete failed.
C4_CleanRetention ==
    (Returned /\ call.cmd = "clean") =>
        /\ Greatest(PreHistory, 5) \subseteq History
        /\ History \subseteq PreHistory
        /\ \A d \in History : snaps[d] = call.pre.snaps[d]
        /\ call.result = "ok" =>
              /\ History = Greatest(PreHistory, 5) \cup call.delfail
              /\ call.delfail = {} => Cardinality(History) <= 5

\* A clean that returned success on a history of more than 5 entries, every
\* delete succeeding.
C4_Witness ==
    /\ Returned /\ call.cmd = "clean" /\ call.result = "ok"
    /\ Cardinality(PreHistory) > 5
    /\ call.delfail = {}
    /\ Cardinality(History) = 5

\* C5 (as claimed): switch without an argument targets the second-greatest
\* name of the history, and the call fails if and only if the history has
\* fewer than two entries.
C5_SwitchFailsIffTooFew ==
    (Returned /\ call.cmd = "switch" /\ call.arg = NoArg) =>
        /\ call.result = "err" <=> Cardinality(PreHistory) < 2
        /\ call.result = "ok" => call.target = SecondGreatest(PreHistory)

\* C5 (amended): switch without an argument fails with "Not enough
\* deployments for rollback." exactly when the history was listed and has
\* fewer than two entries; when it was listed and has two or more, the
\* promote target is the second-greatest name, and the call succeeds (the
\* default subvolume and the current pointer are the target) or fails as the
\* promote does.
C5_SwitchTargetsSecondNewest ==
    (Returned /\ call.cmd = "switch" /\ call.arg = NoArg) =>
        LET listed == call.err # "Failed to list deployments."
            few == Cardinality(PreHistory) < 2
        IN  /\ (listed /\ few) <=> call.err = "Not enough deployments for rollback."
            /\ few => call.result = "err"
            /\ (listed /\ ~few) => call.target = SecondGreatest(PreHistory)
            /\ call.result = "ok" =>
                  /\ bootDefault = SubvolId(call.target)
                  /\ current = LinkTo(call.target)

\* A switch without an argument that succeeded on a history of three or
\* more entries.
C5_Witness ==
    /\ Returned /\ call.cmd = "switch" /\ call.arg = NoArg /\ call.result = "ok"
    /\ Cardinality(PreHistory) >= 3
    /\ call.target = SecondGreatest(PreHistory)
    /\ current = LinkTo(call.target)

\* C6: a deploy on a day on which an earlier deploy succeeded, whose snapshot
\* hammer-<day> is still there, fails, creates no snapshot and changes none.
C6_SecondDeploySameDayFails ==
    (/\ Returned /\ call.cmd = "deploy"
     /\ call.pre.snaps[call.today].exists
     /\ call.pre.snaps[call.today].by = "deploy") =>
        (call.result = "err" /\ snaps = call.pre.snaps)

\* The second deploy of a day, refused by the snapshot command without any
\* injected failure.
C6_Witness ==
    /\ Returned /\ call.cmd = "deploy" /\ call.today \in RunDays
    /\ call.pre.snaps[call.today].exists
    /\ call.pre.snaps[call.today].by = "deploy"
    /\ call.result = "err" /\ call.err = "Failed to create deployment"
    /\ faults = 0

\* C7: in every reachable state the current pointer, if there is one,
\* resolves to a snapshot that exists (clean never deletes the snapshot the
\* current pointer names).
C7_CurrentResolves == current.present => PathExists(current.target)

\* C8: when the progress filter processes `done`, the position the bar
\* reports is the number of `update` lines read before it, capped at the
\* value of the last set_total read before it.
C8_DonePositionIsCappedUpdates ==
    (bar.finished /\ bar.seenTotal) => bar.pos = Min(bar.updates, bar.lastTotal)

\* C9: when, in an atomic install or remove, promote step 1 (set-default)
\* succeeded and step 2 (replacing the current pointer) failed, the call
\* still returns success and the next-boot default is the new snapshot.
C9_Step2FailureIsSuccess ==
    (AtomicReturned /\ call.promo = "step2failed") =>
        (call.result = "ok" /\ bootDefault = SubvolId(call.today))

\* C10: deploy only creates a snapshot: on success hammer-<today> exists and
\* is sealed, and on success or failure the next-boot default and the
\* current pointer are unchanged.
C10_DeployOnlyCreates ==
    (Returned /\ call.cmd = "deploy") =>
        /\ call.result = "ok" => (snaps[call.today].exists /\ snaps[call.today].ro)
        /\ bootDefault = call.pre.bootDefault
        /\ current = call.pre.current

\* C11: in every reachable state, also while an atomic operation is in
\* progress or after it failed, every snapshot in the history (every hammer-
\* entry of the deployments directory) is sealed.
C11_HistorySealed == \A d \in History : snaps[d].ro

\* The positions of an atomic call between its first bind mount and its last
\* unmount: the chroot mutation of hammer-<today>.
InChroot(c) == c.pc \in {"mount", "apt", "umount"}

\* C12: once a snapshot is sealed, no step of any command makes it writable
\* again or starts a chroot mutation (mount, APT) inside it, for as long as it
\* exists; so each snapshot goes writable -> sealed at most once.
C12_SealedStaysSealed ==
    [][\A d \in Days :
          (snaps[d].exists /\ snaps[d].ro /\ snaps'[d].exists) =>
              /\ snaps'[d].ro
              /\ snaps'[d].inside = snaps[d].inside
              /\ ~(InChroot(call') /\ call'.today = d)]_vars

\* An atomic call on a day whose hammer-<day> was already sealed stopped at
\* its snapshot command and left the sealed snapshot as it was.
C12_Witness ==
    /\ AtomicReturned
    /\ call.pre.snaps[call.today].exists /\ call.pre.snaps[call.today].ro
    /\ call.err = "Failed to create deployment"
    /\ snaps[call.today] = call.pre.snaps[call.today]

\* The errors of promote step 1: get_subvol_id and btrfs subvolume set-default.
Step1Errors == {"Failed to get subvolume ID.", "Failed to set default subvolume"}

\* C13: in every promote the default subvolume is set before the current
\* pointer is touched.  A call whose promote failed in step 1 fails and
\* leaves the current pointer (and the default) as it was; no step changes
\* the current pointer unless the default subvolume is already the promote
\* target; and whenever a step re-points the current pointer to a snapshot,
\* the next-boot default is already that snapshot, so a kill at any point
\* leaves the default at least as new as the pointer.
C13_DefaultBeforePointer ==
    /\ [](/\ (call.pc = "done" /\ call.err \in Step1Errors) =>
                (/\ call.result = "err"
                 /\ current = call.pre.current
                 /\ bootDefault = call.pre.bootDefault)
          /\ call.pc \in {"sw_unlink", "sw_symlink"} => bootDefault = call.target)
    /\ [][current' # current =>
            /\ call.pc \in {"sw_unlink", "sw_symlink"}
            /\ bootDefault = call.target
            /\ bootDefault' = bootDefault
            /\ current'.present => current'.target = bootDefault]_vars

\* A promote re-pointed the current pointer to its target, the default
\* subvolume being that target.
C13_Witness ==
    /\ call.pc = "done" /\ call.promo = "done"
    /\ current = LinkTo(call.target)
    /\ current # call.pre.current
    /\ bootDefault = call.target
    /\ bootDefault # call.pre.bootDefault

\* C14: on every exit path of the chroot step after a complete mount setup
\* (APT succeeded or failed), the call attempts to unmount all three targets
\* in the reverse of the mount order (dev, sys, proc), going on to the later
\* targets when an unmount fails.  call.ulog lists the unmount attempts.
C14_UnmountAllInReverse ==
    (AtomicReturned /\ call.ulog # <<>>) => call.ulog = <<"dev", "sys", "proc">>

\* C15: when the bind mount of sys or dev fails after earlier targets were
\* mounted, the mounts already made are gone when the call reports the
\* failure, and the new writable snapshot is left in place.
C15_PartialMountsRolledBack ==
    (AtomicReturned /\ call.err = "Failed to mount") =>
        /\ call.result = "err"
        /\ call.mounted = {}
        /\ snaps[call.today].exists /\ ~snaps[call.today].ro

\* C16: when the chroot APT command of an atomic install or remove exits
\* non-zero and every other tool run of the call succeeds, the call reports
\* failure, hammer-<today> remains and is writable, seal and promote are not
\* executed, the next-boot default and the current pointer are unchanged and
\* none of the three bind mounts remains.  (The call returns the chroot
\* error only on this path: any other failure returns its own error first.)
C16_AptFailureOutcome ==
    (AtomicReturned /\ call.err = ChrootError) =>
        /\ call.result = "err"
        /\ ~call.aptok
        /\ snaps[call.today].exists /\ ~snaps[call.today].ro
        /\ call.promo = "none"
        /\ bootDefault = call.pre.bootDefault
        /\ current = call.pre.current
        /\ call.mounted = {}
        /\ call.ulog = UmountOrder

\* An atomic call that created hammer-<today> and whose APT command failed.
C16_Witness ==
    /\ AtomicReturned /\ call.err = ChrootError
    /\ CreatedAtDest
    /\ snaps[call.today].exists /\ ~snaps[call.today].ro
    /\ call.mounted = {}

\* The errors create_deployment returns: create_dir_all, read_link, the
\* snapshot command, the set-writable property call.
CreateErrors ==
    {"io: create_dir_all", "io: read_link", "Failed to create deployment",
     "Failed to set readonly false"}

\* C17: whenever an atomic operation or deploy fails in its create step, at
\* any of create_deployment's failure points, no new snapshot exists
\* afterwards: the snapshots are those from before the call.
C17_CreateFailureLeavesNoSnapshot ==
    (Returned /\ call.cmd \in Atomic \cup {"deploy"} /\ call.err \in CreateErrors) =>
        /\ call.result = "err"
        /\ DirEntries = {d \in Days : call.pre.snaps[d].exists}
        /\ \A d \in Days : snaps[d].kids = call.pre.snaps[d].kids

C19_SwitchTargetsSealed ==
    (call.cmd = "switch" /\ call.promo # "none") => snaps[call.target].ro

\* C20: switch without an argument is idempotent.  A successful call
\* leaves the history and its snapshots as they were and returns with the
\* default subvolume and the current pointer naming the same entry; and when
\* before the call they already named the second-newest entry of the
\* history (as a first successful switch leaves them), they are the same
\* when the call returns: it does not step further back.
C20_SwitchIdempotent ==
    (Returned /\ call.cmd = "switch" /\ call.arg = NoArg /\ call.result = "ok") =>
        LET again == /\ call.pre.current.present
                     /\ call.pre.current.target \in PreHistory
                     /\ Cardinality({e \in PreHistory :
                            LexLess(Name(call.pre.current.target), Name(e))}) = 1
                     /\ call.pre.bootDefault = SubvolId(call.pre.current.target)
        IN  /\ History = PreHistory
            /\ \A d \in History : snaps[d] = call.pre.snaps[d]
            /\ bootDefault = SubvolId(current.target)
            /\ again => (current = call.pre.current /\ bootDefault = call.pre.bootDefault)

\* A second switch without an argument: the default subvolume and the
\* current pointer named the second-newest entry before the call (an earlier
\* switch left them so) and are the same after it.
C20_Witness ==
    /\ Returned /\ call.cmd = "switch" /\ call.arg = NoArg /\ call.result = "ok"
    /\ call.pre.current.present
    /\ call.pre.current.target = SecondGreatest(PreHistory)
    /\ call.pre.bootDefault = SubvolId(call.pre.current.target)
    /\ current = call.pre.current
    /\ bootDefault = call.pre.bootDefault

====
